---- MODULE Spec2Model ----
(***************************************************************************)
(* Model of the two scripts of sludge-hub-inaturalist-analysis:            *)
(*   src/inat_data_pull.py    paginated pull, cleaning, cleaned CSV        *)
(*   src/spatial_analysis.py  dropna, property containment, buffer zones,  *)
(*                            CSV/SQLite output, distance filter, maps     *)
(*                                                                         *)
(* Numbers.  TLC integers are 32 bit, so the model works on integer        *)
(* lattices:                                                               *)
(*   - angular coordinates are integers in units of 1e-4 degree            *)
(*     (longitude -80.0000 is -800000);                                    *)
(*   - planar coordinates are whole meters;                                *)
(*   - the projection of PROJECTED_CRS (UTM 17N) is modelled by its local  *)
(*     affine form: a false easting, a central meridian, and different     *)
(*     meters-per-unit scales for longitude and latitude;                  *)
(*   - MILES_TO_METERS (1609.34 in the source) is 1609 whole meters;       *)
(*   - cosines and sines are integers scaled by TrigScale.                 *)
(* A missing value (NaN / None) of a numeric column is the integer NaN,    *)
(* which is outside every coordinate the model uses.                       *)
(***************************************************************************)
EXTENDS Integers, Sequences, FiniteSets, TLC

(***************************************************************************)
(* Bounds of the model.                                                    *)
(***************************************************************************)
\* largest buffer radius, in miles, the configurations use
MaxRadius == 2
\* most pages the API serves before it runs out of data
MaxPages == 2

(***************************************************************************)
(* Program constants.                                                      *)
(***************************************************************************)
MILES_TO_METERS == 1609
\* EPSG:32617 (spatial_analysis.py line 27): false easting, central
\* meridian (-81 degrees) and the local scale in meters per 1e-4 degree
FALSE_EASTING == 500000
CENTRAL_MERIDIAN == -810000
METERS_PER_LON_UNIT == 9
METERS_PER_LAT_UNIT == 11
\* shapely's buffer(): 16 segments per quarter circle
QUAD_SEGS == 16
TrigScale == 10000
\* valid angular range of EPSG:4326, in 1e-4 degree
LON_LIMIT == 1800000
LAT_LIMIT == 900000
NaN == 9999999
\* a distance pyproj/shapely report for a point outside the planar frame
INF == 99999999

(***************************************************************************)
(* Small helpers.                                                          *)
(***************************************************************************)
Abs(n) == IF n < 0 THEN -n ELSE n

Range(s) == {s[i] : i \in DOMAIN s}

RECURSIVE SeqSum(_)
SeqSum(s) == IF s = <<>> THEN 0 ELSE Head(s) + SeqSum(Tail(s))

\* least k in lo..hi with k*k >= n (hi*hi >= n is required)
RECURSIVE CeilSqrtIn(_, _, _)
CeilSqrtIn(n, lo, hi) ==
    IF lo >= hi THEN lo
    ELSE LET mid == (lo + hi) \div 2
         IN  IF mid * mid >= n THEN CeilSqrtIn(n, lo, mid)
                               ELSE CeilSqrtIn(n, mid + 1, hi)

\* 46000 * 46000 is the largest square below 2^31 the search may form
CeilSqrt(n) == CeilSqrtIn(n, 0, 46000)

CeilDiv(a, b) == (a + b - 1) \div b

(***************************************************************************)
(* shapely geometry.  A point is [x, y]; a polygon read from WKT is        *)
(* [kind |-> "ring", ring |-> <<p1, ..., pn>>] (closed implicitly).         *)
(***************************************************************************)
Point(x, y) == [x |-> x, y |-> y]

Ring(poly, i) == poly.ring[i]

RingNext(poly, i) == poly.ring[(i % Len(poly.ring)) + 1]

\* (b - a) x (p - a): > 0 when p is left of the directed line a -> b
Cross(a, b, p) == (b.x - a.x) * (p.y - a.y) - (b.y - a.y) * (p.x - a.x)

\* p lies on the closed segment a b
OnSegment(a, b, p) ==
    /\ Cross(a, b, p) = 0
    /\ (IF a.x <= b.x THEN a.x <= p.x /\ p.x <= b.x ELSE b.x <= p.x /\ p.x <= a.x)
    /\ (IF a.y <= b.y THEN a.y <= p.y /\ p.y <= b.y ELSE b.y <= p.y /\ p.y <= a.y)

OnBoundary(poly, p) ==
    \E i \in DOMAIN poly.ring : OnSegment(Ring(poly, i), RingNext(poly, i), p)

\* the edge a b crosses the horizontal ray from p towards +x
RayCrosses(a, b, p) ==
    /\ (a.y > p.y) # (b.y > p.y)
    /\ IF b.y > a.y THEN Cross(a, b, p) > 0 ELSE Cross(a, b, p) < 0

CrossingCount(poly, p) ==
    Cardinality({i \in DOMAIN poly.ring :
                    RayCrosses(Ring(poly, i), RingNext(poly, i), p)})

InEnvelope(poly, p) ==
    /\ \E i \in DOMAIN poly.ring : Ring(poly, i).x <= p.x
    /\ \E i \in DOMAIN poly.ring : Ring(poly, i).x >= p.x
    /\ \E i \in DOMAIN poly.ring : Ring(poly, i).y <= p.y
    /\ \E i \in DOMAIN poly.ring : Ring(poly, i).y >= p.y

\* Polygon.contains(Point) for a ring polygon: the point is in the interior
\* (a point of the boundary is not contained)
RingContains(poly, p) ==
    /\ InEnvelope(poly, p)
    /\ ~OnBoundary(poly, p)
    /\ CrossingCount(poly, p) % 2 = 1

\* Polygon.centroid of a ring polygon (area-weighted, computed relative to
\* the first vertex as GEOS does); the rings used here have a centroid on
\* the angular lattice, so the integer division is exact
Centroid(poly) ==
    LET o  == Ring(poly, 1)
        n  == Len(poly.ring)
        rx(i) == Ring(poly, i).x - o.x
        ry(i) == Ring(poly, i).y - o.y
        nx(i) == RingNext(poly, i).x - o.x
        ny(i) == RingNext(poly, i).y - o.y
        cr(i) == rx(i) * ny(i) - nx(i) * ry(i)
        a2 == SeqSum([i \in 1..n |-> cr(i)])
        sx == SeqSum([i \in 1..n |-> (rx(i) + nx(i)) * cr(i)])
        sy == SeqSum([i \in 1..n |-> (ry(i) + ny(i)) * cr(i)])
    IN  Point(o.x + sx \div (3 * a2), o.y + sy \div (3 * a2))

(***************************************************************************)
(* Reprojection (GeoSeries.to_crs) between GEOGRAPHIC_CRS and              *)
(* PROJECTED_CRS.                                                          *)
(***************************************************************************)
InAngularRange(p) ==
    /\ -LON_LIMIT <= p.x /\ p.x <= LON_LIMIT
    /\ -LAT_LIMIT <= p.y /\ p.y <= LAT_LIMIT

\* a point of the angular frame in the planar frame; PROJ answers inf for a
\* coordinate outside the angular range
to_crs_projected(p) ==
    IF InAngularRange(p)
    THEN Point(FALSE_EASTING + METERS_PER_LON_UNIT * (p.x - CENTRAL_MERIDIAN),
               METERS_PER_LAT_UNIT * p.y)
    ELSE Point(INF, INF)

(***************************************************************************)
(* Point.buffer(distance) in the planar frame: the regular polygon of      *)
(* 4 * QUAD_SEGS vertices inscribed in the circle, first vertex at angle 0.*)
(* The polygon is kept as its centre and radius; its edge k (k = 0..63)    *)
(* lies on the line with outward unit normal at angle (2k+1) * pi/64 and   *)
(* at distance radius * cos(pi/64) from the centre.                        *)
(***************************************************************************)
\* TrigScale * cos((2j+1) * pi / 64), j = 0..15
CosTable == <<9988, 9892, 9700, 9415, 9040, 8577, 8032, 7410,
              6716, 5957, 5141, 4276, 3369, 2430, 1467, 491>>

\* TrigScale * cos(pi / 64): the apothem of the unit 64-gon
ApothemScaled == CosTable[1]

EdgeCount == 4 * QUAD_SEGS

NormalCos(k) ==
    LET q == k \div QUAD_SEGS
        j == k % QUAD_SEGS
    IN  CASE q = 0 -> CosTable[j + 1]
          [] q = 1 -> -CosTable[QUAD_SEGS - j]
          [] q = 2 -> -CosTable[j + 1]
          [] OTHER -> CosTable[QUAD_SEGS - j]

NormalSin(k) ==
    LET q == k \div QUAD_SEGS
        j == k % QUAD_SEGS
    IN  CASE q = 0 -> CosTable[QUAD_SEGS - j]
          [] q = 1 -> CosTable[j + 1]
          [] q = 2 -> -CosTable[QUAD_SEGS - j]
          [] OTHER -> -CosTable[j + 1]

\* a non-positive distance around a point gives POLYGON EMPTY
PointBuffer(center_proj, buffer_meters) ==
    IF buffer_meters <= 0
    THEN [kind |-> "empty", frame |-> "projected", c |-> center_proj, r |-> 0]
    ELSE [kind |-> "circle", frame |-> "projected", c |-> center_proj,
          r |-> buffer_meters]

\* to_crs of the buffer back to the angular frame: every vertex is mapped
\* by the inverse of to_crs_projected.  The inverse is affine, so the image
\* is the polygon whose interior is the set of angular points that
\* to_crs_projected maps into the planar polygon; the record keeps the
\* planar centre and radius and marks the frame its vertices are in.
to_crs_geographic(poly) == [poly EXCEPT !.frame = "geographic"]

\* interior of the inscribed 64-gon of radius r around the origin
InCircle64(dx, dy, r) ==
    /\ Abs(dx) <= r
    /\ Abs(dy) <= r
    /\ \A k \in 0..(EdgeCount - 1) :
          dx * NormalCos(k) + dy * NormalSin(k) < r * ApothemScaled

\* Polygon.contains(Point) for a buffer polygon.  The point's coordinates are
\* read in the frame the polygon's vertices are in.
BufferContains(poly, p) ==
    IF poly.kind = "empty" THEN FALSE
    ELSE LET q == IF poly.frame = "geographic" THEN to_crs_projected(p) ELSE p
         IN  /\ q.x # INF
             /\ InCircle64(q.x - poly.c.x, q.y - poly.c.y, poly.r)

Contains(poly, p) ==
    IF poly.kind = "ring" THEN RingContains(poly, p) ELSE BufferContains(poly, p)

(***************************************************************************)
(* create_geodesic_buffer                                                  *)
(***************************************************************************)
\* create_geodesic_buffer buffering by the radius in miles as if it were meters
create_geodesic_buffer_unconverted(center_point_lon_lat, radius_miles) ==
    to_crs_geographic(PointBuffer(to_crs_projected(center_point_lon_lat), radius_miles))

create_geodesic_buffer(center_point_lon_lat, radius_miles) ==
    LET center_gdf_proj == to_crs_projected(center_point_lon_lat)
        buffer_meters == radius_miles * MILES_TO_METERS
        buffered_polygon_proj == PointBuffer(center_gdf_proj, buffer_meters)
    IN  to_crs_geographic(buffered_polygon_proj)

\* Point.distance in the planar frame, in meters rounded up to a whole
\* meter; no finite distance to or from a point PROJ mapped to inf.  The
\* square of a distance beyond 30 km does not fit the model's integers: such
\* a distance is INF as well (every radius and cutoff used is far below).
PlanarDistance(a, b) ==
    IF a.x = INF \/ b.x = INF THEN INF
    ELSE IF Abs(a.x - b.x) > 30000 \/ Abs(a.y - b.y) > 30000 THEN INF
    ELSE CeilSqrt((a.x - b.x) * (a.x - b.x) + (a.y - b.y) * (a.y - b.y))

(***************************************************************************)
(* Tables (pandas DataFrame): the ordered column names and the rows, each  *)
(* row a function from column name to value.  A missing number is NaN, a   *)
(* missing string is "" (what to_csv writes and read_csv reads back).      *)
(***************************************************************************)
Table(columns, rows) == [columns |-> columns, rows |-> rows]

EmptyTable == Table(<<>>, <<>>)

\* df[name] = values (one value per row): overwrites the column when the
\* name exists, appends it otherwise
SetColumn(t, name, values) ==
    Table(IF name \in Range(t.columns) THEN t.columns ELSE Append(t.columns, name),
          [i \in DOMAIN t.rows |-> (name :> values[i]) @@ t.rows[i]])

\* series.apply(f) over the column of a table, as the values of its rows
Column(t, name) == [i \in DOMAIN t.rows |-> t.rows[i][name]]

\* df.drop(columns=name)
DropColumn(t, name) ==
    Table(SelectSeq(t.columns, LAMBDA c : c # name),
          [i \in DOMAIN t.rows |->
              [c \in (DOMAIN t.rows[i]) \ {name} |-> t.rows[i][c]]])

\* df[names]: the named columns, in the order named
SelectColumns(t, names) ==
    Table(names,
          [i \in DOMAIN t.rows |-> [c \in Range(names) |-> t.rows[i][c]]])

\* dropna with subset=['latitude'] only: a missing longitude goes unnoticed
dropna_latitude_only(t) ==
    Table(t.columns, SelectSeq(t.rows, LAMBDA r : r["latitude"] # NaN))

\* df.dropna(subset=['latitude', 'longitude']): a row stays when neither is
\* missing; the order of the rows that stay is kept
dropna(t) ==
    Table(t.columns,
          SelectSeq(t.rows, LAMBDA r : r["latitude"] # NaN /\ r["longitude"] # NaN))

\* series.fillna(other): the value of other where the series has none
fillna(v, other) == IF v = NaN THEN other ELSE v

\* pd.to_numeric(errors='coerce'): a number stays, a missing value is NaN
\* (the raw values of the model are numbers or missing)
to_numeric(v) == IF v = NaN THEN NaN ELSE v

(***************************************************************************)
(* config.py (not part of the sources): the deployment's configuration.    *)
(***************************************************************************)
\* config.PROPERTY_COORDINATES_WKT_POLYGON parsed by wkt.loads
property_polygon ==
    [kind |-> "ring",
     ring |-> << Point(-800000, 390000), Point(-799960, 390010),
                 Point(-799950, 390040), Point(-799990, 390030) >>]

property_center == Centroid(property_polygon)

\* Point(config.APIARY_LON_DD, config.APIARY_LAT_DD)
apiary_center == Point(-799905, 389990)

\* the radius lists config.BUFFER_RADII_MILES may hold: one or two radii,
\* in any order, repeated or not, zero included
RadiiChoices == UNION {[1..n -> 0..MaxRadius] : n \in 1..2}

\* the values config.MAX_MAP_DISTANCE_MILES may hold
CutoffChoices == {1, MaxRadius + 1}

(***************************************************************************)
(* The iNaturalist API as the pull sees it: the raw observations, flattened*)
(* as json_normalize flattens them.  An observation carries its position   *)
(* as latitude/longitude, as geojson.coordinates (<<lon, lat>>), or not at *)
(* all.                                                                    *)
(***************************************************************************)
RawObservation(id, lat, lon, geo, name, common) ==
    [c \in {"id", "latitude", "longitude", "geojson.coordinates",
            "taxon.name", "taxon.preferred_common_name"} |->
        CASE c = "id" -> id
          [] c = "latitude" -> lat
          [] c = "longitude" -> lon
          [] c = "geojson.coordinates" -> geo
          [] c = "taxon.name" -> name
          [] OTHER -> common]

ObservationKinds == {"inside", "near", "far", "obscured", "half", "beyond_pole"}


\* one observation of each kind, with the identifier the server gave it
MakeObservation(kind, id) ==
    CASE kind = "inside" ->
            RawObservation(id, 390020, -799975, <<>>, "Apis mellifera", "Honey Bee")
      [] kind = "near" ->
            RawObservation(id, NaN, NaN, <<-799900, 390060>>, "Bombus", "")
      [] kind = "far" ->
            RawObservation(id, 390200, -799800, <<-799800, 390200>>, "Danaus plexippus", "Monarch")
      [] kind = "obscured" ->
            RawObservation(id, NaN, NaN, <<>>, "Panax quinquefolius", "Ginseng")
      [] kind = "half" ->
            RawObservation(id, 390020, NaN, <<>>, "Acer", "")
      [] OTHER ->
            RawObservation(id, 950000, -799975, <<>>, "Ursus", "Bear")

\* what a page may hold: one observation or two
PageChoices ==
    {<<"inside">>, <<"half", "near">>, <<"obscured", "far">>, <<"beyond_pole">>}

\* the pages of a data set: page p's observations, numbered 10p+1, 10p+2
MakePages(kinds) ==
    [p \in DOMAIN kinds |->
        [i \in DOMAIN kinds[p] |-> MakeObservation(kinds[p][i], 10 * p + i)]]

RECURSIVE Flatten(_)
Flatten(pages) ==
    IF pages = <<>> THEN <<>> ELSE Head(pages) \o Flatten(Tail(pages))

selected_columns ==
    <<"id", "latitude", "longitude", "taxon.name", "taxon.preferred_common_name">>

\* a cleaned CSV an earlier run left in data/
StaleCsv ==
    Table(selected_columns,
          << [c \in Range(selected_columns) |-> MakeObservation("far", 7)[c]] >>)

(***************************************************************************)
(* State.                                                                  *)
(***************************************************************************)
VARIABLES
    pc,                 \* position in the flow: pull, main, load, ..., done
    server_pages,       \* the API: the result list of page 1, 2, ...
    BUFFER_RADII_MILES, \* config.BUFFER_RADII_MILES
    MAX_MAP_DISTANCE_MILES, \* config.MAX_MAP_DISTANCE_MILES
    page,               \* pull_inaturalist_data: next page to request
    requests,           \* the requests sent so far, in order: page and outcome
    all_observations,   \* pull_inaturalist_data: observations collected
    total_results,      \* pull_inaturalist_data: None (-1) or the API's total
    cleaned_csv,        \* data/sludge_hub_cleaned_data.csv
    df_cleaned,         \* spatial_analysis: the table read, then dropna'd
    removed,            \* the count the dropna message reports (-1: none)
    gdf_observations,   \* the GeoDataFrame being classified
    radius_index,       \* position of the running buffer loop in the list
    property_center_buffers,
    apiary_center_buffers,
    df_analyzed_final,  \* the table handed to to_csv and to_sql
    output_csv,         \* data/sludge_hub_analyzed_data_with_buffers.csv
    output_db,          \* table inaturalist_observations_analyzed
    gdf_observations_for_map,
    map1,               \* markers of the property centre map
    map2                \* markers of the apiary centre map

vars == << pc, server_pages, BUFFER_RADII_MILES, MAX_MAP_DISTANCE_MILES, page,
           requests, all_observations, total_results, cleaned_csv, df_cleaned,
           removed, gdf_observations, radius_index, property_center_buffers,
           apiary_center_buffers, df_analyzed_final, output_csv, output_db,
           gdf_observations_for_map, map1, map2 >>

pull_vars == << page, requests, all_observations, total_results >>

analysis_vars == << df_cleaned, removed, gdf_observations, radius_index,
                    property_center_buffers, apiary_center_buffers,
                    df_analyzed_final, output_csv, output_db,
                    gdf_observations_for_map, map1, map2 >>

config_vars == << server_pages, BUFFER_RADII_MILES, MAX_MAP_DISTANCE_MILES >>

\* a file that does not exist
NoFile == [exists |-> FALSE, table |-> EmptyTable]

File(t) == [exists |-> TRUE, table |-> t]

\* the scripts' state before either has run
Fresh ==
    /\ page = 1
    /\ requests = <<>>
    /\ all_observations = <<>>
    /\ total_results = -1
    /\ df_cleaned = EmptyTable
    /\ removed = -1
    /\ gdf_observations = EmptyTable
    /\ radius_index = 1
    /\ property_center_buffers = <<>>
    /\ apiary_center_buffers = <<>>
    /\ df_analyzed_final = EmptyTable
    /\ output_csv = NoFile
    /\ output_db = NoFile
    /\ gdf_observations_for_map = EmptyTable
    /\ map1 = <<>>
    /\ map2 = <<>>

Init ==
    /\ pc = "pull"
    /\ \E n \in 0..MaxPages : \E kinds \in [1..n -> PageChoices] :
          server_pages = MakePages(kinds)
    /\ BUFFER_RADII_MILES \in RadiiChoices
    /\ MAX_MAP_DISTANCE_MILES \in CutoffChoices
    /\ cleaned_csv \in {NoFile, File(StaleCsv)}
    /\ Fresh

(***************************************************************************)
(* inat_data_pull.py                                                       *)
(***************************************************************************)
\* the API's answer to a request for page p
ServerResults(p) == IF p \in DOMAIN server_pages THEN server_pages[p] ELSE <<>>

ServerTotal == Len(Flatten(server_pages))

\* all_observations.extend(observations) with the new page put in front
extend_front(list, observations) == observations \o list

\* all_observations.extend(observations)
extend(list, observations) == list \o observations

\* one pass of the while loop of pull_inaturalist_data.  requests.get is
\* called outside the try block: a connection error leaves the function as
\* an exception.  raise_for_status is inside it: an HTTP error status breaks
\* the loop.  A break is followed by the summary and the return.
FetchPage ==
    /\ pc = "pull"
    /\ \E outcome \in {"ok", "http_error", "connection_error"} :
          /\ requests' = Append(requests, [page |-> page, outcome |-> outcome])
          /\ IF outcome = "connection_error"
             THEN /\ pc' = "crashed"
                  /\ UNCHANGED << page, all_observations, total_results >>
             ELSE IF outcome = "http_error"
             THEN /\ pc' = "main"
                  /\ UNCHANGED << page, all_observations, total_results >>
             ELSE LET first == total_results = -1
                      observations == ServerResults(page)
                  IN  /\ total_results' = IF first THEN ServerTotal ELSE total_results
                      /\ IF (first /\ ServerTotal = 0) \/ observations = <<>>
                         THEN /\ pc' = "main"
                              /\ UNCHANGED << page, all_observations >>
                         ELSE /\ all_observations' = extend(all_observations, observations)
                              /\ page' = page + 1
                              /\ pc' = "pull"
    /\ UNCHANGED << config_vars, cleaned_csv, analysis_vars >>

\* the cleaning of one raw row: latitude and longitude made numeric, then
\* filled from geojson.coordinates where missing
CleanRow(r) ==
    LET geo == r["geojson.coordinates"]
        geojson_lon == IF Len(geo) = 2 THEN to_numeric(geo[1]) ELSE NaN
        geojson_lat == IF Len(geo) = 2 THEN to_numeric(geo[2]) ELSE NaN
    IN  ("latitude" :> to_numeric(fillna(to_numeric(r["latitude"]), geojson_lat)))
        @@ ("longitude" :> to_numeric(fillna(to_numeric(r["longitude"]), geojson_lon)))
        @@ r

\* the main block: with observations, normalise, clean, select the columns
\* and write the cleaned CSV; with none, write nothing
CleanAndSave ==
    /\ pc = "main"
    /\ IF all_observations # <<>>
       THEN LET df == Table(<<"id", "latitude", "longitude", "geojson.coordinates",
                             "taxon.name", "taxon.preferred_common_name">>,
                            [i \in DOMAIN all_observations |->
                                CleanRow(all_observations[i])])
            IN  cleaned_csv' = File(SelectColumns(df, selected_columns))
       ELSE UNCHANGED cleaned_csv
    /\ pc' = "load"
    /\ UNCHANGED << config_vars, pull_vars, analysis_vars >>

(***************************************************************************)
(* spatial_analysis.py                                                     *)
(***************************************************************************)
\* read_csv of the cleaned file; exit() when it does not exist
LoadCsv ==
    /\ pc = "load"
    /\ IF cleaned_csv.exists
       THEN /\ df_cleaned' = cleaned_csv.table
            /\ pc' = "dropna"
       ELSE /\ pc' = "exit"
            /\ UNCHANGED df_cleaned
    /\ UNCHANGED << config_vars, pull_vars, cleaned_csv, removed, gdf_observations,
                    radius_index, property_center_buffers, apiary_center_buffers,
                    df_analyzed_final, output_csv, output_db,
                    gdf_observations_for_map, map1, map2 >>

\* points_from_xy with the latitude taken for x and the longitude for y
points_from_xy_swapped(x, y) == Point(y, x)

\* geopandas.points_from_xy(x, y)
points_from_xy(x, y) == Point(x, y)

\* the pc of a for loop over list: its body, or what follows an empty list
LoopEntry(list, body, after) == IF list = <<>> THEN after ELSE body

\* rows with a missing latitude or longitude are dropped, their number is
\* printed when there are any, and the GeoDataFrame is built
DropMissing ==
    /\ pc = "dropna"
    /\ LET original_len == Len(df_cleaned.rows)
           kept == dropna(df_cleaned)
       IN  /\ df_cleaned' = kept
           /\ removed' = IF Len(kept.rows) < original_len
                         THEN original_len - Len(kept.rows) ELSE -1
           /\ gdf_observations' =
                 SetColumn(kept, "geometry",
                           [i \in DOMAIN kept.rows |->
                               points_from_xy(kept.rows[i]["longitude"],
                                              kept.rows[i]["latitude"])])
    /\ pc' = "within_property"
    /\ UNCHANGED << config_vars, pull_vars, cleaned_csv, radius_index,
                    property_center_buffers, apiary_center_buffers,
                    df_analyzed_final, output_csv, output_db,
                    gdf_observations_for_map, map1, map2 >>

\* the within_property column
WithinProperty ==
    /\ pc = "within_property"
    /\ gdf_observations' =
          SetColumn(gdf_observations, "within_property",
                    [i \in DOMAIN gdf_observations.rows |->
                        Contains(property_polygon, Column(gdf_observations, "geometry")[i])])
    /\ radius_index' = 1
    /\ pc' = LoopEntry(BUFFER_RADII_MILES, "property_buffers", "save_csv")
    /\ UNCHANGED << config_vars, pull_vars, cleaned_csv, df_cleaned, removed,
                    property_center_buffers, apiary_center_buffers,
                    df_analyzed_final, output_csv, output_db,
                    gdf_observations_for_map, map1, map2 >>

\* f'within_{radius_miles}mile_{center}'
ColName(radius_miles, center) ==
    "within_" \o ToString(radius_miles) \o "mile_" \o center

\* a buffer column that holds the band between the next smaller whole radius
\* and this one instead of the whole disc
BufferColumnBand(gdf, center_name, radius_miles, buffer_polygon) ==
    LET center == IF center_name = "property_center" THEN property_center
                  ELSE apiary_center
        inner == create_geodesic_buffer(center, radius_miles - 1)
    IN  SetColumn(gdf, ColName(radius_miles, center_name),
                  [i \in DOMAIN gdf.rows |->
                      /\ Contains(buffer_polygon, Column(gdf, "geometry")[i])
                      /\ ~Contains(inner, Column(gdf, "geometry")[i])])

\* the column one pass of a buffer loop assigns
BufferColumn(gdf, center_name, radius_miles, buffer_polygon) ==
    SetColumn(gdf, ColName(radius_miles, center_name),
              [i \in DOMAIN gdf.rows |->
                  Contains(buffer_polygon, Column(gdf, "geometry")[i])])

\* one pass of the loop over the radii around the property centre
PropertyBufferStep ==
    /\ pc = "property_buffers"
    /\ LET radius_miles == BUFFER_RADII_MILES[radius_index]
           buffer_polygon == create_geodesic_buffer(property_center, radius_miles)
       IN  /\ property_center_buffers' =
                 Append(property_center_buffers, << radius_miles, buffer_polygon >>)
           /\ gdf_observations' =
                 BufferColumn(gdf_observations, "property_center", radius_miles,
                              buffer_polygon)
    /\ IF radius_index < Len(BUFFER_RADII_MILES)
       THEN /\ radius_index' = radius_index + 1
            /\ pc' = "property_buffers"
       ELSE /\ radius_index' = 1
            /\ pc' = "apiary_buffers"
    /\ UNCHANGED << config_vars, pull_vars, cleaned_csv, df_cleaned, removed,
                    apiary_center_buffers, df_analyzed_final, output_csv,
                    output_db, gdf_observations_for_map, map1, map2 >>

\* one pass of the loop over the radii around the apiary
ApiaryBufferStep ==
    /\ pc = "apiary_buffers"
    /\ LET radius_miles == BUFFER_RADII_MILES[radius_index]
           buffer_polygon == create_geodesic_buffer(apiary_center, radius_miles)
       IN  /\ apiary_center_buffers' =
                 Append(apiary_center_buffers, << radius_miles, buffer_polygon >>)
           /\ gdf_observations' =
                 BufferColumn(gdf_observations, "apiary_center", radius_miles,
                              buffer_polygon)
    /\ IF radius_index < Len(BUFFER_RADII_MILES)
       THEN /\ radius_index' = radius_index + 1
            /\ pc' = "apiary_buffers"
       ELSE /\ radius_index' = 1
            /\ pc' = "save_csv"
    /\ UNCHANGED << config_vars, pull_vars, cleaned_csv, df_cleaned, removed,
                    property_center_buffers, df_analyzed_final, output_csv,
                    output_db, gdf_observations_for_map, map1, map2 >>

\* a drop that takes the coordinate columns along with the geometry
DropGeometryAndCoordinates(gdf) ==
    DropColumn(DropColumn(DropColumn(gdf, "geometry"), "latitude"), "longitude")

\* gdf_observations.drop(columns='geometry')
DropGeometry(gdf) == DropColumn(gdf, "geometry")

\* df_analyzed_final is built and written to the CSV file
SaveCsv ==
    /\ pc = "save_csv"
    /\ df_analyzed_final' = DropGeometry(gdf_observations)
    /\ output_csv' = File(df_analyzed_final')
    /\ pc' = "save_db"
    /\ UNCHANGED << config_vars, pull_vars, cleaned_csv, df_cleaned, removed,
                    gdf_observations, radius_index, property_center_buffers,
                    apiary_center_buffers, output_db, gdf_observations_for_map,
                    map1, map2 >>

\* to_sql(if_exists='replace') inside try/except: the table is replaced, or
\* the error is printed and the script goes on
SaveDb ==
    /\ pc = "save_db"
    /\ \E ok \in BOOLEAN :
          IF ok THEN output_db' = File(df_analyzed_final)
                ELSE UNCHANGED output_db
    /\ pc' = "distance"
    /\ UNCHANGED << config_vars, pull_vars, cleaned_csv, df_cleaned, removed,
                    gdf_observations, radius_index, property_center_buffers,
                    apiary_center_buffers, df_analyzed_final, output_csv,
                    gdf_observations_for_map, map1, map2 >>

\* meters / MILES_TO_METERS, kept in thousandths of a mile, rounded up
MetersToMiles(meters) ==
    IF meters = INF THEN INF ELSE CeilDiv(meters * 1000, MILES_TO_METERS)

\* the two distance columns, from the property centre only
ComputeDistance ==
    /\ pc = "distance"
    /\ LET property_center_proj == to_crs_projected(property_center)
           gdf_observations_proj ==
               [i \in DOMAIN gdf_observations.rows |->
                   to_crs_projected(Column(gdf_observations, "geometry")[i])]
           with_meters ==
               SetColumn(gdf_observations, "distance_from_property_center_meters",
                         [i \in DOMAIN gdf_observations.rows |->
                             PlanarDistance(gdf_observations_proj[i],
                                            property_center_proj)])
       IN  gdf_observations' =
               SetColumn(with_meters, "distance_from_property_center_miles",
                         [i \in DOMAIN with_meters.rows |->
                             MetersToMiles(Column(with_meters,
                                 "distance_from_property_center_meters")[i])])
    /\ pc' = "filter"
    /\ UNCHANGED << config_vars, pull_vars, cleaned_csv, df_cleaned, removed,
                    radius_index, property_center_buffers, apiary_center_buffers,
                    df_analyzed_final, output_csv, output_db,
                    gdf_observations_for_map, map1, map2 >>

\* a filter that also cuts the written CSV down to the rows within the cutoff
FilterForMapAndOutput ==
    /\ pc = "filter"
    /\ gdf_observations_for_map' =
          Table(gdf_observations.columns,
                SelectSeq(gdf_observations.rows,
                          LAMBDA r : r["distance_from_property_center_miles"]
                                        <= MAX_MAP_DISTANCE_MILES * 1000))
    /\ output_csv' =
          File(DropGeometry(
                   Table(gdf_observations.columns,
                         SelectSeq(gdf_observations.rows,
                                   LAMBDA r : r["distance_from_property_center_miles"]
                                                 <= MAX_MAP_DISTANCE_MILES * 1000))))
    /\ pc' = "map1"
    /\ UNCHANGED << config_vars, pull_vars, cleaned_csv, df_cleaned, removed,
                    gdf_observations, radius_index, property_center_buffers,
                    apiary_center_buffers, df_analyzed_final, output_db, map1, map2 >>

\* the rows within MAX_MAP_DISTANCE_MILES of the property centre
FilterForMap ==
    /\ pc = "filter"
    /\ gdf_observations_for_map' =
          Table(gdf_observations.columns,
                SelectSeq(gdf_observations.rows,
                          LAMBDA r : r["distance_from_property_center_miles"]
                                        <= MAX_MAP_DISTANCE_MILES * 1000))
    /\ pc' = "map1"
    /\ UNCHANGED << config_vars, pull_vars, cleaned_csv, df_cleaned, removed,
                    gdf_observations, radius_index, property_center_buffers,
                    apiary_center_buffers, df_analyzed_final, output_csv,
                    output_db, map1, map2 >>

\* all(...) in the place of any(...): the flag of every radius must be true
AllBuffers(row, center_name) ==
    \A i \in DOMAIN BUFFER_RADII_MILES :
        row[ColName(BUFFER_RADII_MILES[i], center_name)]

\* any(row[f'within_{r}mile_<center>'] for r in BUFFER_RADII_MILES)
AnyBuffer(row, center_name) ==
    \E i \in DOMAIN BUFFER_RADII_MILES :
        row[ColName(BUFFER_RADII_MILES[i], center_name)]

\* the marker of one row on the map of a centre
Marker(row, center_name) ==
    LET color_val == IF row["within_property"] THEN "red"
                     ELSE IF AnyBuffer(row, center_name) THEN "orange"
                     ELSE "blue"
        radius_val == IF row["within_property"] THEN 5
                      ELSE IF AnyBuffer(row, center_name) THEN 3
                      ELSE 2
        obs_taxon == IF row["taxon.preferred_common_name"] # ""
                     THEN row["taxon.preferred_common_name"]
                     ELSE row["taxon.name"]
    IN  [id |-> row["id"], location |-> << row["latitude"], row["longitude"] >>,
         color |-> color_val, radius |-> radius_val, taxon |-> obs_taxon]

Markers(gdf, center_name) ==
    [i \in DOMAIN gdf.rows |-> Marker(gdf.rows[i], center_name)]

\* map 1: the property centre buffers and one marker per filtered row
Map1 ==
    /\ pc = "map1"
    /\ map1' = Markers(gdf_observations_for_map, "property_center")
    /\ pc' = "map2"
    /\ UNCHANGED << config_vars, pull_vars, cleaned_csv, df_cleaned, removed,
                    gdf_observations, radius_index, property_center_buffers,
                    apiary_center_buffers, df_analyzed_final, output_csv,
                    output_db, gdf_observations_for_map, map2 >>

\* map 2: the apiary buffers and one marker per filtered row
Map2 ==
    /\ pc = "map2"
    /\ map2' = Markers(gdf_observations_for_map, "apiary_center")
    /\ pc' = "done"
    /\ UNCHANGED << config_vars, pull_vars, cleaned_csv, df_cleaned, removed,
                    gdf_observations, radius_index, property_center_buffers,
                    apiary_center_buffers, df_analyzed_final, output_csv,
                    output_db, gdf_observations_for_map, map1 >>

Analysis ==
    \/ LoadCsv
    \/ DropMissing
    \/ WithinProperty
    \/ PropertyBufferStep
    \/ ApiaryBufferStep
    \/ SaveCsv
    \/ SaveDb
    \/ ComputeDistance
    \/ FilterForMap
    \/ Map1
    \/ Map2

Next ==
    \/ FetchPage
    \/ CleanAndSave
    \/ Analysis

Spec == Init /\ [][Next]_vars

\* inat_data_pull.py alone, run to its end: the loop keeps going until it
\* breaks or raises, and the main block follows the return
Pull ==
    \/ FetchPage
    \/ CleanAndSave

SpecPull == Init /\ [][Pull]_vars /\ WF_vars(Pull)

(***************************************************************************)
(* The analysis alone, on a cleaned CSV of one observation anywhere on the *)
(* angular lattice near the property polygon or near the rim of a buffer.  *)
(***************************************************************************)
\* squared planar distance between two points of the angular frame
PlanarDistSq(p, c) ==
    LET pp == to_crs_projected(p)
        cp == to_crs_projected(c)
    IN  (pp.x - cp.x) * (pp.x - cp.x) + (pp.y - cp.y) * (pp.y - cp.y)

\* the lattice points next to the rim of the circle of r miles around c, in
\* every fourth lattice column: in each, above and below the centre, the
\* outermost point inside the circle and the innermost point outside it
RimPoints(c, r) ==
    LET R == r * MILES_TO_METERS
        span == R \div METERS_PER_LON_UNIT
        columns == {i \in -span..span : i % 4 = 0}
        j0(i) == CeilSqrt(R * R - (METERS_PER_LON_UNIT * i) * (METERS_PER_LON_UNIT * i))
                    \div METERS_PER_LAT_UNIT
    IN  UNION {{Point(c.x + i, c.y + j) : j \in {j0(i), j0(i) + 1, -j0(i), -j0(i) - 1}} :
                  i \in columns}

\* the lattice points around the property polygon
PolygonPoints ==
    {Point(property_center.x + i, property_center.y + j) : i \in -28..28, j \in -23..23}

\* a coarse grid over everything the buffers cover
GridPoints ==
    LET a == (MaxRadius * MILES_TO_METERS) \div (METERS_PER_LON_UNIT * 45) + 2
        b == (MaxRadius * MILES_TO_METERS) \div (METERS_PER_LAT_UNIT * 45) + 2
    IN  {Point(property_center.x + 45 * i, property_center.y + 45 * j) :
            i \in -a..a, j \in -b..b}

GeoPoints ==
    PolygonPoints \cup GridPoints
        \cup UNION {RimPoints(property_center, r) \cup RimPoints(apiary_center, r) :
                       r \in 1..MaxRadius}

GeoRow(p) ==
    [c \in Range(selected_columns) |->
        CASE c = "id" -> 1
          [] c = "latitude" -> p.y
          [] c = "longitude" -> p.x
          [] c = "taxon.name" -> "Apis mellifera"
          [] OTHER -> ""]

\* the radii 1..MaxRadius, ascending or descending
GeoRadii ==
    {[i \in 1..MaxRadius |-> i], [i \in 1..MaxRadius |-> MaxRadius + 1 - i]}

GeoInit ==
    /\ pc = "load"
    /\ server_pages = <<>>
    /\ BUFFER_RADII_MILES \in GeoRadii
    /\ MAX_MAP_DISTANCE_MILES = 1
    /\ cleaned_csv \in
          {NoFile} \cup {File(Table(selected_columns, << GeoRow(p) >>)) : p \in GeoPoints}
    /\ Fresh

SpecGeo == GeoInit /\ [][Analysis]_vars

(***************************************************************************)
(* Properties.                                                             *)
(***************************************************************************)
\* the position a row states in its longitude and latitude columns
ObsPoint(row) == Point(row["longitude"], row["latitude"])

\* p is in the open interior of a convex ring given counter-clockwise: it is
\* strictly left of every edge
StrictlyInside(poly, p) ==
    \A i \in DOMAIN poly.ring : Cross(Ring(poly, i), RingNext(poly, i), p) > 0

\* p is strictly right of some edge of the convex ring
StrictlyOutside(poly, p) ==
    \E i \in DOMAIN poly.ring : Cross(Ring(poly, i), RingNext(poly, i), p) < 0

Classified == DOMAIN gdf_observations.rows

ClassifiedRow(i) == gdf_observations.rows[i]

Centers == {"property_center", "apiary_center"}

CenterPoint(center_name) ==
    IF center_name = "property_center" THEN property_center ELSE apiary_center

\* C1: every classified observation strictly inside the property polygon has
\* within_property true, every one strictly outside has it false.
C1_BoundaryFlag ==
    \A i \in Classified :
        "within_property" \in DOMAIN ClassifiedRow(i) =>
            /\ StrictlyInside(property_polygon, ObsPoint(ClassifiedRow(i)))
                  => ClassifiedRow(i)["within_property"]
            /\ StrictlyOutside(property_polygon, ObsPoint(ClassifiedRow(i)))
                  => ~ClassifiedRow(i)["within_property"]

\* a finished run with an observation strictly inside the polygon, flagged
C1_Witness ==
    /\ pc = "done"
    /\ \E i \in Classified :
          /\ StrictlyInside(property_polygon, ObsPoint(ClassifiedRow(i)))
          /\ ClassifiedRow(i)["within_property"]

\* the flag of row i for the buffer of the k-th radius around a centre is set
HasBufferFlag(i, center_name, k) ==
    ColName(BUFFER_RADII_MILES[k], center_name) \in DOMAIN ClassifiedRow(i)

BufferFlag(i, center_name, k) ==
    ClassifiedRow(i)[ColName(BUFFER_RADII_MILES[k], center_name)]

\* squared planar distance of row i from a centre
RowDistSq(i, center_name) ==
    PlanarDistSq(ObsPoint(ClassifiedRow(i)), CenterPoint(center_name))

RadiusMeters(k) == BUFFER_RADII_MILES[k] * MILES_TO_METERS

\* the radius less 0.13 percent, rounded down, and more 0.13 percent, rounded
\* up: the 64-gon is inscribed, its apothem is cos(pi/64) = 0.99880 radius
InnerMeters(k) == (RadiusMeters(k) * 9987) \div 10000

OuterMeters(k) == (RadiusMeters(k) * 10013) \div 10000 + 1

\* C2 (amended): with a tolerance of 0.13 percent of the radius, an
\* observation at planar distance at most radius - tolerance from a centre
\* has the flag of that buffer true, and one at distance at least
\* radius + tolerance has it false.
C2_BufferWithinTolerance ==
    \A i \in Classified : \A c \in Centers : \A k \in DOMAIN BUFFER_RADII_MILES :
        (HasBufferFlag(i, c, k) /\ BUFFER_RADII_MILES[k] > 0) =>
            /\ RowDistSq(i, c) <= InnerMeters(k) * InnerMeters(k)
                  => BufferFlag(i, c, k)
            /\ RowDistSq(i, c) >= OuterMeters(k) * OuterMeters(k)
                  => ~BufferFlag(i, c, k)

\* a finished run with an observation inside one buffer of a centre by more
\* than the tolerance and outside another by more than the tolerance
C2_Witness ==
    /\ pc = "done"
    /\ \E i \in Classified : \E c \in Centers :
          \E k, m \in DOMAIN BUFFER_RADII_MILES :
              /\ RowDistSq(i, c) <= InnerMeters(k) * InnerMeters(k)
              /\ BufferFlag(i, c, k)
              /\ RowDistSq(i, c) >= OuterMeters(m) * OuterMeters(m)
              /\ ~BufferFlag(i, c, m)

\* C2 as claimed: an observation whose planar distance from a centre is at
\* most the radius has the flag of that buffer true (and one farther than
\* the radius plus 0.1 percent has it false).
C2_DistanceWithinRadiusFlagged ==
    \A i \in Classified : \A c \in Centers : \A k \in DOMAIN BUFFER_RADII_MILES :
        (HasBufferFlag(i, c, k) /\ BUFFER_RADII_MILES[k] > 0) =>
            /\ RowDistSq(i, c) <= RadiusMeters(k) * RadiusMeters(k)
                  => BufferFlag(i, c, k)
            /\ RowDistSq(i, c) > ((RadiusMeters(k) * 1001) \div 1000 + 1)
                                     * ((RadiusMeters(k) * 1001) \div 1000 + 1)
                  => ~BufferFlag(i, c, k)

\* C3: for one centre and one observation, a true flag for a radius implies a
\* true flag for every larger configured radius.
C3_Monotone ==
    \A i \in Classified : \A c \in Centers : \A k, m \in DOMAIN BUFFER_RADII_MILES :
        ( /\ HasBufferFlag(i, c, k)
          /\ HasBufferFlag(i, c, m)
          /\ BUFFER_RADII_MILES[k] < BUFFER_RADII_MILES[m]
          /\ BufferFlag(i, c, k) ) => BufferFlag(i, c, m)

\* a finished run with an observation flagged for a radius and a larger one
C3_Witness ==
    /\ pc = "done"
    /\ \E i \in Classified : \E c \in Centers : \E k, m \in DOMAIN BUFFER_RADII_MILES :
          /\ BUFFER_RADII_MILES[k] < BUFFER_RADII_MILES[m]
          /\ BufferFlag(i, c, k)
          /\ BufferFlag(i, c, m)

\* the files handed to the persistence step that exist
Persisted == {f \in {output_csv, output_db} : f.exists}

DistanceColumn(center_name) == "distance_from_" \o center_name \o "_miles"

\* C4: every record of the table written to the CSV file and the SQLite
\* table carries the boundary flag, a flag per (centre, radius) pair and a
\* distance in miles for each of the two centres.
C4_PersistedRecordsComplete ==
    \A f \in Persisted : \A i \in DOMAIN f.table.rows :
        /\ "within_property" \in DOMAIN f.table.rows[i]
        /\ \A c \in Centers : \A k \in DOMAIN BUFFER_RADII_MILES :
              ColName(BUFFER_RADII_MILES[k], c) \in DOMAIN f.table.rows[i]
        /\ \A c \in Centers : DistanceColumn(c) \in DOMAIN f.table.rows[i]

\* the containment columns of a table for one centre
ZoneColumns(t, center_name) ==
    {j \in DOMAIN t.columns :
        \E k \in DOMAIN BUFFER_RADII_MILES :
            t.columns[j] = ColName(BUFFER_RADII_MILES[k], center_name)}

\* C5: the written output holds, for each centre, as many containment
\* columns as the radius list has entries, repeated radii included.
C5_OneColumnPerListEntry ==
    output_csv.exists =>
        \A c \in Centers :
            Cardinality(ZoneColumns(output_csv.table, c)) = Len(BUFFER_RADII_MILES)

\* C6: with a radius <= 0 in the list nothing is classified: no containment
\* column of a non-positive radius is computed and no output is written.
C6_NonPositiveRadiusRejected ==
    (\E k \in DOMAIN BUFFER_RADII_MILES : BUFFER_RADII_MILES[k] <= 0) =>
        /\ ~output_csv.exists
        /\ ~output_db.exists
        /\ \A i \in Classified : \A c \in Centers : \A k \in DOMAIN BUFFER_RADII_MILES :
              BUFFER_RADII_MILES[k] <= 0 => ~HasBufferFlag(i, c, k)

\* C7: no observation with a longitude or latitude outside the angular range
\* receives a containment flag.
C7_InvalidCoordinateExcluded ==
    \A i \in Classified :
        "within_property" \in DOMAIN ClassifiedRow(i)
            => InAngularRange(ObsPoint(ClassifiedRow(i)))

RECURSIVE NonNullRows(_)
\* the rows of a sequence that have a latitude and a longitude, in order
NonNullRows(rows) ==
    IF rows = <<>> THEN <<>>
    ELSE IF Head(rows)["latitude"] = NaN \/ Head(rows)["longitude"] = NaN
         THEN NonNullRows(Tail(rows))
         ELSE << Head(rows) >> \o NonNullRows(Tail(rows))

Ids(rows) == [i \in DOMAIN rows |-> rows[i]["id"]]

\* the table the analysis read
InputTable == cleaned_csv.table

\* C8: the written output holds exactly the input rows with a latitude and a
\* longitude, each once, in the order of the input.
C8_OutputIsNonNullInput ==
    \A f \in Persisted : Ids(f.table.rows) = Ids(NonNullRows(InputTable.rows))

\* an output of two rows or more written from an input that had rows dropped
C8_Witness ==
    /\ output_csv.exists
    /\ Len(output_csv.table.rows) >= 2
    /\ Len(InputTable.rows) > Len(output_csv.table.rows)
    /\ Ids(output_csv.table.rows) = Ids(NonNullRows(InputTable.rows))

\* C9: when the pull collected no observation, the flow ends without an
\* error and with an empty classified output.
C9_EmptyPullEmptyOutput ==
    (all_observations = <<>> /\ pc \in {"exit", "done"}) =>
        /\ pc = "done"
        /\ output_csv.exists
        /\ output_csv.table.rows = <<>>

\* the row of the input table with the identifier of row, with every input
\* column present in row and equal
KeepsInput(row) ==
    /\ "id" \in DOMAIN row
    /\ \E j \in DOMAIN InputTable.rows :
          /\ InputTable.rows[j]["id"] = row["id"]
          /\ \A c \in Range(InputTable.columns) :
                c \in DOMAIN row /\ row[c] = InputTable.rows[j][c]

\* C10: every row being classified and every row written keeps its
\* identifier and every input column with the value of the input record.
C10_InputColumnsKept ==
    /\ \A i \in Classified : KeepsInput(ClassifiedRow(i))
    /\ \A f \in Persisted : \A i \in DOMAIN f.table.rows : KeepsInput(f.table.rows[i])

\* a written row with the boundary flag and a buffer flag appended
C10_Witness ==
    /\ output_csv.exists
    /\ \E i \in DOMAIN output_csv.table.rows :
          /\ KeepsInput(output_csv.table.rows[i])
          /\ "within_property" \in DOMAIN output_csv.table.rows[i]
          /\ ColName(BUFFER_RADII_MILES[1], "apiary_center")
                \in DOMAIN output_csv.table.rows[i]

\* the flags of a written row are those of its own position and of the
\* configured radii: nothing of the map cutoff enters them
FlagsOfPosition(row) ==
    /\ row["within_property"] =
          Contains(property_polygon, points_from_xy(row["longitude"], row["latitude"]))
    /\ \A c \in Centers : \A k \in DOMAIN BUFFER_RADII_MILES :
          row[ColName(BUFFER_RADII_MILES[k], c)] =
              Contains(create_geodesic_buffer(CenterPoint(c), BUFFER_RADII_MILES[k]),
                       points_from_xy(row["longitude"], row["latitude"]))

\* the rows the map filter has left out
BeyondCutoff ==
    {i \in Classified :
        /\ pc \in {"map1", "map2", "done"}
        /\ ClassifiedRow(i)["distance_from_property_center_miles"]
              > MAX_MAP_DISTANCE_MILES * 1000}

\* C11: whatever MAX_MAP_DISTANCE_MILES is, the written table holds the input
\* rows that have coordinates, each with the flags of its position and of
\* the radii alone, and a row the map filter left out is still in it.
C11_CutoffOnlyFiltersMaps ==
    \A f \in Persisted :
        /\ Ids(f.table.rows) = Ids(NonNullRows(InputTable.rows))
        /\ \A i \in DOMAIN f.table.rows : FlagsOfPosition(f.table.rows[i])
        /\ \A i \in BeyondCutoff :
              \E j \in DOMAIN f.table.rows : f.table.rows[j]["id"] = ClassifiedRow(i)["id"]

\* a finished run whose maps leave out an observation that the written CSV
\* and table hold
C11_Witness ==
    /\ pc = "done"
    /\ output_csv.exists
    /\ output_db.exists
    /\ \E i \in BeyondCutoff :
          /\ \A m \in DOMAIN map1 : map1[m].id # ClassifiedRow(i)["id"]
          /\ \E j \in DOMAIN output_csv.table.rows :
                output_csv.table.rows[j]["id"] = ClassifiedRow(i)["id"]

RECURSIVE Served(_)
\* the results of pages 1..n, concatenated in page order
Served(n) == IF n = 0 THEN <<>> ELSE Served(n - 1) \o ServerResults(n)

\* no request so far has failed
AllOk == \A i \in DOMAIN requests : requests[i].outcome = "ok"

\* the i-th request asks for page i; as long as no request fails, no request
\* follows an empty page, the observations collected are the pages served so
\* far in page order, and the pull ends on an empty page with every
\* non-empty page before it collected
PagesInOrder ==
    /\ \A i \in DOMAIN requests : requests[i].page = i
    /\ AllOk =>
          /\ \A i \in 1..(Len(requests) - 1) : ServerResults(i) # <<>>
          /\ pc = "pull" => all_observations = Served(Len(requests))
          /\ pc # "pull" =>
                /\ requests # <<>>
                /\ ServerResults(Len(requests)) = <<>>
                /\ all_observations = Served(Len(requests) - 1)
                /\ all_observations = Flatten(server_pages)

\* C12: pull_inaturalist_data requests pages 1, 2, 3, ... in order, none
\* skipped or repeated, stops at the first page with an empty result list,
\* and returns the results of the non-empty pages before it, concatenated in
\* page order; the loop always comes to an end.
C12_PagesInOrderFullDataset == []PagesInOrder /\ <>(pc # "pull")

\* a pull that has returned after two non-empty pages and an empty third
C12_Witness ==
    /\ pc = "main"
    /\ AllOk
    /\ Len(requests) = 3
    /\ ServerResults(3) = <<>>
    /\ Len(all_observations) >= 3
    /\ all_observations = Served(2)

\* the last request sent has failed
LastFailed == requests # <<>> /\ requests[Len(requests)].outcome # "ok"

\* C13: when a page request fails, with an HTTP error status or with a
\* connection error, the function does not raise: it stops paginating and
\* returns the observations of the earlier pages, nothing of the failed one.
C13_FailedPageReturnsCollected ==
    LastFailed =>
        /\ pc # "crashed"
        /\ pc # "pull"
        /\ all_observations = Served(Len(requests) - 1)

\* the maps drawn so far, each with the centre whose buffers it shows
MapsDrawn ==
    (IF pc \in {"map2", "done"} THEN {<< map1, "property_center" >>} ELSE {})
        \cup (IF pc = "done" THEN {<< map2, "apiary_center" >>} ELSE {})

\* the classified row with an identifier
RowOfId(id) ==
    CHOOSE row \in Range(gdf_observations.rows) : row["id"] = id

\* some buffer flag of the centre is true in the classified row
SomeRadiusFlag(row, center_name) ==
    \E k \in DOMAIN BUFFER_RADII_MILES : row[ColName(BUFFER_RADII_MILES[k], center_name)]

\* C14: on each map every rendered observation has one marker, red when its
\* within_property flag is true, otherwise orange when a buffer flag of the
\* map's centre is true for some configured radius, otherwise blue.
C14_MarkerColourByPriority ==
    \A mp \in MapsDrawn :
        /\ [m \in DOMAIN mp[1] |-> mp[1][m].id] = Ids(gdf_observations_for_map.rows)
        /\ \A m \in DOMAIN mp[1] :
              LET row == RowOfId(mp[1][m].id)
              IN  mp[1][m].color =
                     IF row["within_property"] THEN "red"
                     ELSE IF SomeRadiusFlag(row, mp[2]) THEN "orange"
                     ELSE "blue"

\* both maps drawn with a red marker and an orange marker whose observation
\* is inside the buffer of one radius and outside that of another
C14_Witness ==
    /\ pc = "done"
    /\ \E m \in DOMAIN map2 : map2[m].color = "red"
    /\ \E m \in DOMAIN map1 : \E k, n \in DOMAIN BUFFER_RADII_MILES :
          /\ map1[m].color = "orange"
          /\ RowOfId(map1[m].id)[ColName(BUFFER_RADII_MILES[k], "property_center")]
          /\ ~RowOfId(map1[m].id)[ColName(BUFFER_RADII_MILES[n], "property_center")]

====
